---- MODULE Spec2Model ----
(***************************************************************************)
(* A model of NormSuite (src/norm_identification2.py): a suite of norm     *)
(* hypotheses whose masses are odds ratios against the "no norm"           *)
(* hypothesis, updated from observed traces by a sanction-based and a      *)
(* plan-based likelihood.                                                  *)
(*                                                                         *)
(* Probabilities and masses are exact rationals <<numerator, denominator>> *)
(* in lowest terms with a positive denominator.  A node name is a one      *)
(* character string; a trace token is a tuple of characters, so that the   *)
(* token 'ab' is <<"a","b">> and the sanction marker '!' is <<"!">>.       *)
(* A hypothesis is a tuple of strings; None is the empty tuple.            *)
(***************************************************************************)
EXTENDS Integers, Sequences, FiniteSets, TLC

VARIABLES
  d,                       \* self.d : hypothesis -> mass
  inferred_goal,           \* self.inferred_goal
  plans,                   \* self.plans
  plan_paths,              \* self.plan_paths
  prob_non_compliance,     \* self.prob_non_compliance
  prob_viol_detection,     \* self.prob_viol_detection
  prob_sanctioning,        \* self.prob_sanctioning
  prob_random_punishment,  \* self.prob_random_punishment
  op,                      \* the method called last
  arg,                     \* its argument
  ret,                     \* what it computed (locals and return value)
  raised,                  \* the exception it raised, or "none"
  d_before,                \* self.d when it was called
  ncalls                   \* number of calls made on the suite

vars == <<d, inferred_goal, plans, plan_paths, prob_non_compliance,
          prob_viol_detection, prob_sanctioning, prob_random_punishment,
          op, arg, ret, raised, d_before, ncalls>>

corpus == <<inferred_goal, plans, plan_paths>>
params == <<prob_non_compliance, prob_viol_detection, prob_sanctioning,
            prob_random_punishment>>

----------------------------------------------------------------------------
(* Bounds of the model.                                                    *)

\* longest trace passed to UpdateOddsRatioVsNoNorm
MaxTraceLen == 2
\* longest trace whose partition is examined on its own
MaxRawLen == 4
\* longest dataset passed to UpdateSet
MaxDataset == 2
\* longest trace inside a dataset
MaxDatasetTraceLen == 2
\* longest node path passed to the likelihood functions directly
MaxPathLen == 3
\* calls made on one suite
MaxCalls == 2
\* largest prior mass of the mass stores ranked by most_probable_norms
MaxMass == 3

----------------------------------------------------------------------------
(* Exact rational arithmetic, standing for Python's float arithmetic.      *)

Abs(x) == IF x < 0 THEN -x ELSE x

RECURSIVE GCD(_, _)
GCD(a, b) == IF b = 0 THEN a ELSE GCD(b, a % b)

\* n/m in lowest terms, m # 0
Rat(n, m) ==
  LET g == GCD(Abs(n), Abs(m))
      s == IF m < 0 THEN -1 ELSE 1
  IN  <<(s * n) \div g, (s * m) \div g>>

Zero == <<0, 1>>
One == <<1, 1>>

RMul(x, y) ==
  LET g1 == GCD(Abs(x[1]), y[2])
      g2 == GCD(Abs(y[1]), x[2])
  IN  <<(x[1] \div g1) * (y[1] \div g2), (x[2] \div g2) * (y[2] \div g1)>>

\* x / y, y # 0
RDiv(x, y) == RMul(x, Rat(y[2], y[1]))

RAdd(x, y) == Rat(x[1] * y[2] + y[1] * x[2], x[2] * y[2])

RSub(x, y) == Rat(x[1] * y[2] - y[1] * x[2], x[2] * y[2])

RLeq(x, y) == x[1] * y[2] <= y[1] * x[2]

RECURSIVE RPowNat(_, _)
RPowNat(x, k) == IF k = 0 THEN One ELSE RMul(x, RPowNat(x, k - 1))

\* Python's x ** k for an integer k: a value, or ZeroDivisionError for
\* zero raised to a negative power
Pow(x, k) ==
  IF k >= 0 THEN [exc |-> "none", val |-> RPowNat(x, k)]
  ELSE IF x[1] = 0 THEN [exc |-> "ZeroDivisionError", val |-> Zero]
  ELSE [exc |-> "none", val |-> RPowNat(RDiv(One, x), -k)]

\* Python's x / y
Div(x, y) ==
  IF y[1] = 0 THEN [exc |-> "ZeroDivisionError", val |-> Zero]
  ELSE [exc |-> "none", val |-> RDiv(x, y)]

----------------------------------------------------------------------------
(* Sequences.                                                              *)

\* Python's s[i:j] for 0 <= i, as a sequence
Slice(s, i, j) ==
  LET hi == IF j > Len(s) THEN Len(s) ELSE j
  IN  IF i >= hi THEN <<>> ELSE SubSeq(s, i + 1, hi)

\* all sequences over S of length at most n
SeqsUpTo(S, n) == UNION {[1..k -> S] : k \in 0..n}

Range(s) == {s[i] : i \in 1..Len(s)}

----------------------------------------------------------------------------
(* Splitting a raw trace into the clean path and the sanctioned positions. *)

Marker == <<"!">>

\* the loop of lines 73-77 from 0-based position index on
RECURSIVE PartitionLoop(_, _, _, _)
PartitionLoop(obs, index, sanction_indices, obs_without_sanctions) ==
  IF index >= Len(obs)
    THEN [sanction_indices |-> sanction_indices,
          obs_without_sanctions |-> obs_without_sanctions]
    ELSE LET item == obs[index + 1]
         IN  IF item = Marker
               THEN PartitionLoop(obs, index + 1,
                      sanction_indices \cup {index - Cardinality(sanction_indices)},
                      obs_without_sanctions)
               \* list += str appends the characters of the string
               ELSE PartitionLoop(obs, index + 1, sanction_indices,
                      obs_without_sanctions \o item)

Partition(obs) == PartitionLoop(obs, 0, {}, <<>>)

----------------------------------------------------------------------------
(* The plan corpus.                                                        *)

NoNorm == <<>>

\* the actions of the demonstration graph, each a node path
Actions ==
  { <<"a", "b">>, <<"b", "e">>, <<"b", "c">>, <<"b", "d">>, <<"a", "f">>,
    <<"a", "c", "e">>, <<"e", "d">> }

Nodes == UNION {Range(action) : action \in Actions}

\* a goal is <<start node, end node>>
Goals == { <<"a", "d">>, <<"a", "e">>, <<"d", "a">> }

\* planlib: the plans (sequences of actions) that lead from one node to
\* another, each action starting where the previous one ended
RECURSIVE PlansFromTo(_, _, _)
PlansFromTo(from, to, fuel) ==
  IF from = to THEN {<<>>}
  ELSE IF fuel = 0 THEN {}
  ELSE UNION { { <<action>> \o rest :
                   rest \in PlansFromTo(action[Len(action)], to, fuel - 1) } :
               action \in {x \in Actions : x[1] = from} }

RECURSIVE SetToSeq(_)
SetToSeq(S) ==
  IF S = {} THEN <<>>
  ELSE LET x == CHOOSE y \in S : TRUE IN <<x>> \o SetToSeq(S \ {x})

\* planlib.planned(goal, actions, set([]))
planned(goal) == PlansFromTo(goal[1], goal[2], Cardinality(Actions)) # {}

\* planlib.flattened_plan_tree(goal)
flattened_plan_tree(goal) ==
  SetToSeq(PlansFromTo(goal[1], goal[2], Cardinality(Actions)))

\* lines 7-11: the node path of a plan
RECURSIVE plan_path_extend(_, _, _)
plan_path_extend(plan, k, paths) ==
  IF k > Len(plan) THEN paths
  ELSE plan_path_extend(plan, k + 1, paths \o Tail(plan[k]))

plan_path(plan) == plan_path_extend(plan, 1, <<plan[1][1]>>)

\* lines 13-14
is_sub_list(list1, list2) ==
  \E i \in 0..(Len(list2) - Len(list1)) :
     list1 = Slice(list2, i, i + Len(list1))

----------------------------------------------------------------------------
(* Violation index sets (lines 106-154); positions are 0-based.            *)

At(path, i) == path[i + 1]

well_formed(hypothesis) == Len(hypothesis) \in {2, 3}

\* line 111
viol_eventually(node, path) ==
  IF \A i \in 0..(Len(path) - 1) : At(path, i) # node
    THEN {Len(path) - 1} ELSE {}

\* line 114 with the comparison negated
viol_never_negated(node, path) ==
  {index \in 0..(Len(path) - 1) : At(path, index) # node}

\* line 114
viol_never(node, path) ==
  {index \in 0..(Len(path) - 1) : At(path, index) = node}

\* lines 120-121
viol_next(context_node, node, path) ==
  {i + 1 : i \in {j \in 0..(Len(path) - 2) :
                    At(path, j) = context_node /\ At(path, j + 1) # node}}

\* lines 123-124
viol_not_next(context_node, node, path) ==
  {i + 1 : i \in {j \in 0..(Len(path) - 2) :
                    At(path, j) = context_node /\ At(path, j + 1) = node}}

\* the loop of lines 131-134 (and 236-239) over reversed(path[:-1])
RECURSIVE last_context_loop(_, _, _)
last_context_loop(path, context_node, index) ==
  IF index >= Len(path) - 1 THEN Len(path)
  ELSE IF At(path, Len(path) - 2 - index) = context_node
         THEN Len(path) - index - 2
         ELSE last_context_loop(path, context_node, index + 1)

\* the loop of lines 145-148 (and 246-249) over path[:-1]
RECURSIVE first_context_loop(_, _, _)
first_context_loop(path, context_node, index) ==
  IF index >= Len(path) - 1 THEN Len(path)
  ELSE IF At(path, index) = context_node THEN index
         ELSE first_context_loop(path, context_node, index + 1)

\* lines 128-140
viol_cond_eventually(context_node, node, path) ==
  LET last_context_index == last_context_loop(path, context_node, 0)
  IN  IF /\ last_context_index < Len(path) - 1
         /\ \A item \in Range(Slice(path, last_context_index + 1, Len(path))) :
               item # node
        THEN {Len(path) - 1} ELSE {}

\* lines 143-151: the indices are those of the suffix after the context
viol_cond_never(context_node, node, path) ==
  LET first_context_index == first_context_loop(path, context_node, 0)
      suffix == Slice(path, first_context_index + 1, Len(path))
  IN  {index \in 0..(Len(suffix) - 1) : At(suffix, index) = node}

\* lines 108-154: the violation index set, or the ValueError
violation_indices(hypothesis, path) ==
  IF Len(hypothesis) = 2 THEN
    LET modality == hypothesis[1]
        node == hypothesis[2]
    IN  IF modality = "eventually"
          THEN [exc |-> "none", val |-> viol_eventually(node, path)]
        ELSE IF modality = "never"
          THEN [exc |-> "none", val |-> viol_never(node, path)]
        ELSE [exc |-> "ValueError", val |-> {}]
  ELSE
    LET context_node == hypothesis[1]
        modality == hypothesis[2]
        node == hypothesis[3]
    IN  IF modality = "next"
          THEN [exc |-> "none", val |-> viol_next(context_node, node, path)]
        ELSE IF modality = "not next"
          THEN [exc |-> "none", val |-> viol_not_next(context_node, node, path)]
        ELSE IF modality = "eventually"
          THEN [exc |-> "none",
                val |-> viol_cond_eventually(context_node, node, path)]
        ELSE IF modality = "never"
          THEN [exc |-> "none", val |-> viol_cond_never(context_node, node, path)]
        ELSE [exc |-> "ValueError", val |-> {}]

----------------------------------------------------------------------------
(* LikelihoodUsingSanctions (lines 93-189).                                *)

\* lines 168-170: a violation followed by a punishment
factor_violation_punished ==
  RAdd(prob_random_punishment,
       RMul(RMul(RSub(One, prob_random_punishment), prob_viol_detection),
            prob_sanctioning))

\* lines 173-174: a violation not followed by a punishment
factor_violation_unpunished ==
  RMul(RSub(One, RMul(prob_viol_detection, prob_sanctioning)),
       RSub(One, prob_random_punishment))

\* line 181: no violation, punished
factor_compliant_punished == prob_random_punishment

\* line 185: no violation, not punished
factor_compliant_unpunished == RSub(One, prob_random_punishment)

\* lines 164-185: the factor of position i
position_factor(i, viol_indices, sanction_indices) ==
  IF i \in viol_indices
    THEN IF i + 1 \in sanction_indices
           THEN factor_violation_punished
           ELSE factor_violation_unpunished
    ELSE IF i + 1 \in sanction_indices
           THEN factor_compliant_punished
           ELSE factor_compliant_unpunished

\* the loop of lines 161-185 from position i on
RECURSIVE likelihood_loop(_, _, _, _, _)
likelihood_loop(obs_path, viol_indices, sanction_indices, i, likelihood) ==
  IF i >= Len(obs_path) THEN likelihood
  ELSE likelihood_loop(obs_path, viol_indices, sanction_indices, i + 1,
         RMul(likelihood, position_factor(i, viol_indices, sanction_indices)))

\* lines 97-101: the likelihood of the trace if there is no norm
no_norm_sanction_likelihood(obs_path, sanction_indices) ==
  LET unpunished == Pow(RSub(One, prob_random_punishment),
                        Len(obs_path) - Cardinality(sanction_indices))
      punished == Pow(prob_random_punishment, Cardinality(sanction_indices))
  IN  IF unpunished.exc # "none" THEN unpunished
      ELSE [exc |-> "none", val |-> RMul(unpunished.val, punished.val)]

LikelihoodUsingSanctions(obs_path, sanction_indices, hypothesis) ==
  IF hypothesis = NoNorm
    THEN no_norm_sanction_likelihood(obs_path, sanction_indices)
  ELSE IF well_formed(hypothesis)
    THEN LET vi == violation_indices(hypothesis, obs_path)
         IN  IF vi.exc # "none" THEN [exc |-> vi.exc, val |-> Zero]
             ELSE [exc |-> "none",
                   val |-> likelihood_loop(obs_path, vi.val, sanction_indices,
                                           0, One)]
  ELSE [exc |-> "ValueError", val |-> Zero]

----------------------------------------------------------------------------
(* LikelihoodUsingPlans (lines 191-270).                                   *)

\* line 217
breach_eventually(node, path) ==
  \A i \in 0..(Len(path) - 1) : At(path, i) # node

\* line 219
breach_never(node, path) ==
  \E i \in 0..(Len(path) - 1) : At(path, i) = node

\* lines 225-227
breach_next(context_node, node, path) ==
  \E i \in {j \in 0..(Len(path) - 1) : At(path, j) = context_node} :
     i # Len(path) - 1 /\ At(path, i + 1) # node

\* lines 229-231
breach_not_next(context_node, node, path) ==
  \E i \in {j \in 0..(Len(path) - 1) : At(path, j) = context_node} :
     i # Len(path) - 1 /\ At(path, i + 1) = node

\* lines 233-241
breach_cond_eventually(context_node, node, path) ==
  LET last_context_index == last_context_loop(path, context_node, 0)
  IN  /\ last_context_index < Len(path) - 1
      /\ \A item \in Range(Slice(path, last_context_index + 1, Len(path))) :
            item # node

\* lines 244-252 without the search for the context
breach_cond_never_without_context(context_node, node, path) ==
  \E item \in Range(path) : item = node

\* lines 244-252
breach_cond_never(context_node, node, path) ==
  LET first_context_index == first_context_loop(path, context_node, 0)
  IN  \E item \in Range(Slice(path, first_context_index + 1, Len(path))) :
         item = node

\* lines 212-255: the breach predicate, or the ValueError
is_norm_breaching(hypothesis, path) ==
  IF Len(hypothesis) = 2 THEN
    LET modality == hypothesis[1]
        node == hypothesis[2]
    IN  IF modality = "eventually"
          THEN [exc |-> "none", val |-> breach_eventually(node, path)]
        ELSE IF modality = "never"
          THEN [exc |-> "none", val |-> breach_never(node, path)]
        ELSE [exc |-> "ValueError", val |-> FALSE]
  ELSE
    LET context_node == hypothesis[1]
        modality == hypothesis[2]
        node == hypothesis[3]
    IN  IF modality = "next"
          THEN [exc |-> "none", val |-> breach_next(context_node, node, path)]
        ELSE IF modality = "not next"
          THEN [exc |-> "none", val |-> breach_not_next(context_node, node, path)]
        ELSE IF modality = "eventually"
          THEN [exc |-> "none",
                val |-> breach_cond_eventually(context_node, node, path)]
        ELSE IF modality = "never"
          THEN [exc |-> "none", val |-> breach_cond_never(context_node, node, path)]
        ELSE [exc |-> "ValueError", val |-> FALSE]

\* line 196: the positions in self.plan_paths of the paths containing obs_path
plan_paths_containing_obs(obs_path) ==
  {k \in 1..Len(plan_paths) : is_sub_list(obs_path, plan_paths[k])}

\* lines 258-268, for a hypothesis whose breach predicate is defined, given
\* the positions of the plan paths containing the observation (line 196)
\* and prob_obs_if_no_norm (line 202)
plan_likelihood(containing_obs, prob_obs_if_no_norm, hypothesis) ==
  LET norm_breaching_plans ==
        {k \in 1..Len(plan_paths) : is_norm_breaching(hypothesis, plan_paths[k]).val}
      num_non_norm_breaching_plans == Len(plans) - Cardinality(norm_breaching_plans)
      num_non_norm_breaching_plans_containing_obs ==
        Cardinality(containing_obs \ norm_breaching_plans)
  IN  IF num_non_norm_breaching_plans = 0
        THEN RMul(prob_non_compliance, prob_obs_if_no_norm)
        ELSE RAdd(RMul(RSub(One, prob_non_compliance),
                       Rat(num_non_norm_breaching_plans_containing_obs,
                           num_non_norm_breaching_plans)),
                  RMul(prob_non_compliance, prob_obs_if_no_norm))

LikelihoodUsingPlans(obs_path, hypothesis) ==
  LET containing_obs == plan_paths_containing_obs(obs_path)
      num_plans_containing_obs == Cardinality(containing_obs)
  IN  IF Len(plans) = 0 THEN [exc |-> "AssertionError", val |-> Zero]
      ELSE IF num_plans_containing_obs = 0
        THEN [exc |-> "ValueError", val |-> Zero]
      ELSE IF hypothesis = NoNorm
        THEN [exc |-> "none", val |-> Rat(num_plans_containing_obs, Len(plans))]
      ELSE IF well_formed(hypothesis)
        THEN IF is_norm_breaching(hypothesis, <<>>).exc # "none"
               THEN [exc |-> "ValueError", val |-> Zero]
               ELSE [exc |-> "none",
                     val |-> plan_likelihood(containing_obs,
                               Rat(num_plans_containing_obs, Len(plans)),
                               hypothesis)]
      ELSE [exc |-> "ValueError", val |-> Zero]

----------------------------------------------------------------------------
(* The odds update (lines 57-91).                                          *)

\* the norm hypotheses of the suite, one of each shape
Norms ==
  { <<"never", "b">>, <<"eventually", "c">>, <<"a", "next", "b">>,
    <<"a", "not next", "b">>, <<"b", "eventually", "d">>, <<"a", "never", "b">> }

Hypotheses == {NoNorm} \cup Norms

\* self.Values(): the hypotheses in the order of the dict
Values == SetToSeq(Hypotheses)

\* Suite.Mult(x, factor)
Mult(dd, x, factor) == [dd EXCEPT ![x] = RMul(@, factor)]

\* lines 87-91: the plan-based factor of one hypothesis; a ValueError of
\* LikelihoodUsingPlans is swallowed, anything else propagates
plan_update(dd, hypo, obs_path, no_norm_likelihood_using_plans) ==
  LET hypo_likelihood == LikelihoodUsingPlans(obs_path, hypo)
  IN  IF hypo_likelihood.exc = "ValueError" THEN [exc |-> "none", d |-> dd]
      ELSE IF hypo_likelihood.exc # "none"
        THEN [exc |-> hypo_likelihood.exc, d |-> dd]
      \* the baseline was never bound: line 80 raised
      ELSE IF no_norm_likelihood_using_plans.exc # "none"
        THEN [exc |-> "UnboundLocalError", d |-> dd]
      ELSE LET ratio == Div(hypo_likelihood.val, no_norm_likelihood_using_plans.val)
           IN  IF ratio.exc # "none" THEN [exc |-> ratio.exc, d |-> dd]
               ELSE [exc |-> "none", d |-> Mult(dd, hypo, ratio.val)]

\* the loop of lines 83-91 from the k-th hypothesis on
RECURSIVE update_loop(_, _, _, _, _, _)
update_loop(dd, k, obs_path, sanction_indices, no_norm_sanctions, no_norm_plans) ==
  IF k > Len(Values) THEN [exc |-> "none", d |-> dd]
  ELSE
    LET hypo == Values[k]
    IN  IF hypo = NoNorm
          THEN update_loop(dd, k + 1, obs_path, sanction_indices,
                           no_norm_sanctions, no_norm_plans)
        ELSE
          LET hypo_likelihood ==
                LikelihoodUsingSanctions(obs_path, sanction_indices, hypo)
              ratio == Div(hypo_likelihood.val, no_norm_sanctions)
          IN  IF hypo_likelihood.exc # "none"
                THEN [exc |-> hypo_likelihood.exc, d |-> dd]
              ELSE IF ratio.exc # "none" THEN [exc |-> ratio.exc, d |-> dd]
              ELSE
                LET after == plan_update(Mult(dd, hypo, ratio.val), hypo,
                                         obs_path, no_norm_plans)
                IN  IF after.exc # "none" THEN after
                    ELSE update_loop(after.d, k + 1, obs_path, sanction_indices,
                                     no_norm_sanctions, no_norm_plans)

\* lines 65-91: the masses after the update of dd with trace obs, and the
\* exception that ended it
UpdateOddsRatioVsNoNorm(dd, obs) ==
  LET split == Partition(obs)
      obs_without_sanctions == split.obs_without_sanctions
      sanction_indices == split.sanction_indices
      no_norm_likelihood_using_sanctions ==
        LikelihoodUsingSanctions(obs_without_sanctions, sanction_indices, NoNorm)
      no_norm_likelihood_using_plans ==
        LikelihoodUsingPlans(obs_without_sanctions, NoNorm)
  IN  IF no_norm_likelihood_using_sanctions.exc # "none"
        THEN [exc |-> no_norm_likelihood_using_sanctions.exc, d |-> dd]
      ELSE IF no_norm_likelihood_using_plans.exc \notin {"none", "ValueError"}
        THEN [exc |-> no_norm_likelihood_using_plans.exc, d |-> dd]
      ELSE update_loop(dd, 1, obs_without_sanctions, sanction_indices,
                       no_norm_likelihood_using_sanctions.val,
                       no_norm_likelihood_using_plans)

\* lines 62-63: the loop of UpdateSet from the k-th trace on
RECURSIVE update_set_loop(_, _, _)
update_set_loop(dd, dataset, k) ==
  IF k > Len(dataset) THEN [exc |-> "none", d |-> dd]
  ELSE LET after == UpdateOddsRatioVsNoNorm(dd, dataset[k])
       IN  IF after.exc # "none" THEN after
           ELSE update_set_loop(after.d, dataset, k + 1)

\* lines 57-63
UpdateSet(dd, dataset) == update_set_loop(dd, dataset, 1)

\* Suite.Normalize, which the override of lines 44-45 replaces: the masses
\* divided by their sum
Normalize_inherited(dd) ==
  LET hs == SetToSeq(DOMAIN dd)
      total[k \in 0..Len(hs)] ==
        IF k = 0 THEN Zero ELSE RAdd(total[k - 1], dd[hs[k]])
  IN  [h \in DOMAIN dd |-> RDiv(dd[h], total[Len(hs)])]

\* lines 44-45: the override does nothing
Normalize(dd) == dd

----------------------------------------------------------------------------
(* most_probable_norms (lines 272-293).                                    *)

\* PriorityQueue.sorted_queue(): the orders of the hypotheses of dd by
\* ascending mass
sorted_queue(dd) ==
  LET n == Cardinality(DOMAIN dd)
  IN  { s \in [1..n -> DOMAIN dd] :
          /\ \A i, j \in 1..n : i # j => s[i] # s[j]
          /\ \A i \in 1..(n - 1) : RLeq(dd[s[i]], dd[s[i + 1]]) }

\* line 280
reversed(s) == [i \in 1..Len(s) |-> s[Len(s) + 1 - i]]

\* the loop of lines 282-291, n being norms[i]
RECURSIVE top_loop(_, _, _, _)
top_loop(dd, norms, i, topN) ==
  IF i >= Len(norms) THEN topN
  ELSE LET tied == dd[At(norms, i)] = dd[At(norms, i - 1)]
       IN  IF i > topN
             THEN IF tied THEN top_loop(dd, norms, i + 1, topN + 1) ELSE topN
             ELSE top_loop(dd, norms, i + 1, topN)

\* lines 280-293, for one order of the queue
most_probable_norms(dd, sorted, topN) ==
  LET norms == reversed(sorted)
      n == top_loop(dd, norms, 1, topN)
  IN  [norms |-> Slice(norms, 0, n), topN |-> n]

----------------------------------------------------------------------------
(* Inputs.                                                                 *)

\* the four probabilities of the constructor: an interior point and the
\* ends of [0,1]
ParamChoices ==
  { [non_compliance |-> <<1, 4>>, viol_detection |-> <<1, 2>>,
     sanctioning |-> <<1, 2>>, random_punishment |-> <<1, 4>>],
    [non_compliance |-> <<1, 4>>, viol_detection |-> <<1, 2>>,
     sanctioning |-> <<1, 2>>, random_punishment |-> <<0, 1>>],
    [non_compliance |-> <<1, 4>>, viol_detection |-> <<1, 2>>,
     sanctioning |-> <<1, 2>>, random_punishment |-> <<1, 1>>],
    [non_compliance |-> <<0, 1>>, viol_detection |-> <<1, 1>>,
     sanctioning |-> <<1, 1>>, random_punishment |-> <<1, 4>>],
    [non_compliance |-> <<1, 1>>, viol_detection |-> <<0, 1>>,
     sanctioning |-> <<0, 1>>, random_punishment |-> <<3, 4>>] }

\* prior odds of a norm hypothesis (that of None is 1)
NormPriors == { <<1, 20>>, <<0, 1>> }

\* tokens of the traces passed to the update
Tokens == { <<"a">>, <<"b">>, Marker }
Traces == SeqsUpTo(Tokens, MaxTraceLen)
Datasets == SeqsUpTo(SeqsUpTo(Tokens, MaxDatasetTraceLen), MaxDataset)

\* the traces that are only split
RawTraces == SeqsUpTo(Tokens, MaxRawLen)

\* node paths and hypotheses passed to the likelihood functions directly
PathNodes == {"a", "b", "c"}
Paths == SeqsUpTo(PathNodes, MaxPathLen)
PathHypotheses ==
  { <<m, n>> : m \in {"eventually", "never"}, n \in PathNodes } \cup
  { <<c, m, n>> : c \in PathNodes,
                  m \in {"next", "not next", "eventually", "never"},
                  n \in PathNodes }

\* the hypotheses ranked by most_probable_norms
RankedHypotheses ==
  { NoNorm, <<"never", "b">>, <<"eventually", "c">>, <<"a", "next", "b">> }

----------------------------------------------------------------------------
(* The suite as a state machine.                                           *)

\* the record of a call
Call(o, a, r, e) ==
  /\ op' = o
  /\ arg' = a
  /\ ret' = r
  /\ raised' = e
  /\ d_before' = d
  /\ ncalls' = ncalls + 1

\* lines 28-41: a constructed suite (the constructor raises for a goal
\* without plans, and then there is no suite)
Constructed(hypotheses, goal, p) ==
  /\ planned(goal)
  /\ d = hypotheses
  /\ inferred_goal = goal
  /\ plans = flattened_plan_tree(goal)
  /\ plan_paths = [k \in 1..Len(flattened_plan_tree(goal)) |->
                     plan_path(flattened_plan_tree(goal)[k])]
  /\ prob_non_compliance = p.non_compliance
  /\ prob_viol_detection = p.viol_detection
  /\ prob_sanctioning = p.sanctioning
  /\ prob_random_punishment = p.random_punishment
  /\ op = "__init__"
  /\ arg = <<>>
  /\ ret = <<>>
  /\ raised = "none"
  /\ d_before = hypotheses
  /\ ncalls = 0

\* the goal and the prior odds of the demonstration (lines 307, 324-325)
DemoGoal == <<"a", "d">>
DemoPrior(hypotheses, prior) ==
  [h \in hypotheses |-> IF h = NoNorm THEN One ELSE prior]
DemoParams ==
  CHOOSE p \in ParamChoices :
     p.random_punishment = <<1, 4>> /\ p.non_compliance = <<1, 4>>

Init ==
  \E p \in ParamChoices, prior \in NormPriors :
     Constructed(DemoPrior(Hypotheses, prior), DemoGoal, p)

\* lines 65-91
Call_UpdateOddsRatioVsNoNorm ==
  /\ ncalls < MaxCalls
  /\ \E obs \in Traces :
        LET after == UpdateOddsRatioVsNoNorm(d, obs)
        IN  /\ d' = after.d
            /\ Call("UpdateOddsRatioVsNoNorm", obs, Partition(obs), after.exc)
  /\ UNCHANGED <<corpus, params>>

\* lines 57-63
Call_UpdateSet ==
  /\ op = "__init__"
  /\ \E dataset \in Datasets :
        LET after == UpdateSet(d, dataset)
        IN  /\ d' = after.d
            /\ Call("UpdateSet", dataset, <<>>, after.exc)
  /\ UNCHANGED <<corpus, params>>

\* lines 47-53
Call_SetGoal ==
  /\ ncalls < MaxCalls
  /\ \E goal \in Goals :
        /\ inferred_goal' = goal
        /\ IF planned(goal)
             THEN /\ plans' = flattened_plan_tree(goal)
                  /\ plan_paths' = [k \in 1..Len(flattened_plan_tree(goal)) |->
                                      plan_path(flattened_plan_tree(goal)[k])]
                  /\ Call("SetGoal", goal, <<>>, "none")
             ELSE /\ UNCHANGED <<plans, plan_paths>>
                  /\ Call("SetGoal", goal, <<>>, "ValueError")
  /\ UNCHANGED <<d, params>>

\* lines 44-45
Call_Normalize ==
  /\ ncalls < MaxCalls
  /\ d' = Normalize(d)
  /\ Call("Normalize", <<>>, <<>>, "none")
  /\ UNCHANGED <<corpus, params>>

Next ==
  \/ Call_UpdateOddsRatioVsNoNorm
  \/ Call_SetGoal
  \/ Call_Normalize

\* a suite that is updated, normalized and given a new goal
Spec == Init /\ [][Next]_vars

NextSet == Call_UpdateSet

\* a suite updated with a dataset
SpecSet == Init /\ [][NextSet]_vars

----------------------------------------------------------------------------
(* The functions of the suite on inputs of their own.                      *)

\* lines 71-77 alone
Call_Partition ==
  /\ op = "__init__"
  /\ \E obs \in RawTraces : Call("Partition", obs, Partition(obs), "none")
  /\ UNCHANGED <<d, corpus, params>>

InitDemo == Constructed(DemoPrior(Hypotheses, <<1, 20>>), DemoGoal, DemoParams)

\* the split of a raw trace
SpecPart == InitDemo /\ [][Call_Partition]_vars

\* lines 106-154, 160
Call_violation_indices ==
  /\ op = "__init__"
  /\ \E hypothesis \in PathHypotheses, path \in Paths :
        Call("violation_indices", [hypothesis |-> hypothesis, path |-> path],
             violation_indices(hypothesis, path).val,
             violation_indices(hypothesis, path).exc)
  /\ UNCHANGED <<d, corpus, params>>

\* lines 212-255, 258
Call_is_norm_breaching ==
  /\ op = "__init__"
  /\ \E hypothesis \in PathHypotheses, path \in Paths :
        Call("is_norm_breaching", [hypothesis |-> hypothesis, path |-> path],
             is_norm_breaching(hypothesis, path).val,
             is_norm_breaching(hypothesis, path).exc)
  /\ UNCHANGED <<d, corpus, params>>

NextViol == Call_violation_indices \/ Call_is_norm_breaching

\* the violation rules of the two likelihoods
SpecViol == InitDemo /\ [][NextViol]_vars

\* lines 93-189
Call_LikelihoodUsingSanctions ==
  /\ op = "__init__"
  /\ \E path \in Paths, hypothesis \in PathHypotheses \cup {NoNorm} :
        \E sanction_indices \in SUBSET (0..Len(path)) :
           LET likelihood ==
                 LikelihoodUsingSanctions(path, sanction_indices, hypothesis)
           IN  Call("LikelihoodUsingSanctions",
                    [obs_path |-> path, sanction_indices |-> sanction_indices,
                     hypothesis |-> hypothesis],
                    likelihood.val, likelihood.exc)
  /\ UNCHANGED <<d, corpus, params>>

InitLik ==
  \E p \in ParamChoices : Constructed(DemoPrior(Hypotheses, <<1, 20>>), DemoGoal, p)

\* the sanction-based likelihood
SpecLik == InitLik /\ [][Call_LikelihoodUsingSanctions]_vars

\* lines 272-293
Call_most_probable_norms ==
  /\ op = "__init__"
  /\ \E topN \in 1..Cardinality(DOMAIN d) :
        \E sorted \in sorted_queue(d) :
           Call("most_probable_norms", topN,
                most_probable_norms(d, sorted, topN), "none")
  /\ UNCHANGED <<d, corpus, params>>

InitTop ==
  \E hypotheses \in [RankedHypotheses -> {<<m, 1>> : m \in 1..MaxMass}] :
     Constructed(hypotheses, DemoGoal, DemoParams)

\* the ranking of a mass store
SpecTop == InitTop /\ [][Call_most_probable_norms]_vars

----------------------------------------------------------------------------
(* Properties.                                                             *)

\* the number of elements of s[1..k] that are not the marker
NonMarkersBefore(s, k) == Cardinality({j \in 1..k : s[j] # Marker})

\* the hypotheses whose mass is at least that of the n-th ranked one
TopWithTies(dd, n) ==
  LET atLeast(m) == {h \in DOMAIN dd : RLeq(m, dd[h])}
      above(m) == {h \in DOMAIN dd : ~RLeq(dd[h], m)}
      cutoff == CHOOSE m \in {dd[h] : h \in DOMAIN dd} :
                   Cardinality(above(m)) < n /\ n <= Cardinality(atLeast(m))
  IN  atLeast(cutoff)

\* C1: most_probable_norms(n), 1 <= n <= number of hypotheses, returns the
\* top n hypotheses together with every hypothesis whose mass equals the
\* mass of the n-th ranked one, and the size of that selection as the
\* effective count.
C1_TopNKeepsCutoffTies ==
  op = "most_probable_norms" =>
    /\ Range(ret.norms) = TopWithTies(d, arg)
    /\ Len(ret.norms) = Cardinality(TopWithTies(d, arg))
    /\ ret.topN = Cardinality(TopWithTies(d, arg))

\* C2: the update splits a raw trace into the clean path, which is its
\* non-marker tokens in order, and the sanctioned positions, which are the
\* numbers of non-marker tokens before each marker.
C2_PartitionOfTrace ==
  op = "Partition" =>
    LET clean == ret.obs_without_sanctions
        tokens == {i \in 1..Len(arg) : arg[i] # Marker}
    IN  /\ Len(clean) = Cardinality(tokens)
        /\ \A i \in tokens : arg[i] = <<clean[NonMarkersBefore(arg, i)]>>
        /\ ret.sanction_indices =
             {NonMarkersBefore(arg, i) : i \in {j \in 1..Len(arg) : arg[j] = Marker}}

\* whether the plan-based baseline of the last update was derivable
BaselineDerivable == plan_paths_containing_obs(ret.obs_without_sanctions) # {}

\* the sanction likelihood the last update computed for hypothesis h
SanctionLikelihood(h) ==
  LikelihoodUsingSanctions(ret.obs_without_sanctions, ret.sanction_indices, h)

\* C3: when the clean path of the trace is in no plan path, the update
\* completes without raising and multiplies the mass of every norm
\* hypothesis by its sanction-based ratio alone.
C3_SkippedPlanEvidence ==
  (op = "UpdateOddsRatioVsNoNorm" /\ ~BaselineDerivable) =>
    /\ raised = "none"
    /\ \A h \in Norms :
         d[h] = RMul(d_before[h],
                     RDiv(SanctionLikelihood(h).val, SanctionLikelihood(NoNorm).val))

\* the plan paths of a goal
PlanPathsOf(goal) ==
  [k \in 1..Len(flattened_plan_tree(goal)) |-> plan_path(flattened_plan_tree(goal)[k])]

\* C4: whatever SetGoal calls were made, failed ones included, an update
\* that computes a plan-based likelihood computes it from the plan paths of
\* the goal the suite records.
C4_NoStalePlanPaths ==
  (op = "UpdateOddsRatioVsNoNorm" /\ BaselineDerivable) =>
    /\ plans = flattened_plan_tree(inferred_goal)
    /\ plan_paths = PlanPathsOf(inferred_goal)

\* the plan likelihood the last update computed for hypothesis h
PlanLikelihood(h) == LikelihoodUsingPlans(ret.obs_without_sanctions, h)

\* the ratio the last update applied to hypothesis h
UpdateRatio(h) ==
  RMul(RDiv(SanctionLikelihood(h).val, SanctionLikelihood(NoNorm).val),
       IF BaselineDerivable
         THEN RDiv(PlanLikelihood(h).val, PlanLikelihood(NoNorm).val)
         ELSE One)

\* C5: masses are never negative, and a call changes a mass only by
\* multiplying it by a ratio >= 0, the product of the sanction ratio of the
\* update and, when derivable, its plan ratio; Normalize (like SetGoal, and
\* an update that raises) changes no mass.
C5_MassOnlyMultiplied ==
  /\ \A h \in DOMAIN d : d[h][1] >= 0 /\ d[h][2] > 0
  /\ op \in {"Normalize", "SetGoal"} => d = d_before
  /\ op = "UpdateOddsRatioVsNoNorm" =>
       IF raised # "none" THEN d = d_before
       ELSE /\ d[NoNorm] = d_before[NoNorm]
            /\ \A h \in Norms :
                 /\ UpdateRatio(h)[1] >= 0
                 /\ d[h] = RMul(d_before[h], UpdateRatio(h))

\* an update with a sanction and a derivable plan baseline changed a mass
C5_Witness ==
  /\ op = "UpdateOddsRatioVsNoNorm"
  /\ raised = "none"
  /\ ret.sanction_indices # {}
  /\ BaselineDerivable
  /\ \E h \in Norms : d[h] # d_before[h] /\ d[h] # Zero

\* the orders of the elements of sequence s
Orders(s) ==
  { [i \in 1..Len(s) |-> s[f[i]]] :
      f \in {g \in [1..Len(s) -> 1..Len(s)] :
               \A i, j \in 1..Len(s) : i # j => g[i] # g[j]} }

\* C6: UpdateSet leaves the same masses for every order of its dataset.
C6_UpdatesCommute ==
  op = "UpdateSet" =>
    \A dataset \in Orders(arg) : UpdateSet(d_before, dataset).d = d


\* the positions of the path of the last likelihood call that are followed
\* by a sanction, and those that are not
Punished == {i \in 0..(Len(arg.obs_path) - 1) : i + 1 \in arg.sanction_indices}
Unpunished == {i \in 0..(Len(arg.obs_path) - 1) : i + 1 \notin arg.sanction_indices}

\* a likelihood call for a hypothesis (never, X) on a path without X
NeverOnPathWithout ==
  /\ op = "LikelihoodUsingSanctions"
  /\ Len(arg.hypothesis) = 2
  /\ arg.hypothesis[1] = "never"
  /\ arg.hypothesis[2] \notin Range(arg.obs_path)

\* C7 as stated: for (never, X) and a path without X the violation index set
\* is empty and the likelihood has the factor
\* (1 - p_detect * p_sanction) * (1 - p_random) for every position that is
\* not sanctioned (and p_random for every sanctioned one).
C7_FactorAsStated ==
  NeverOnPathWithout =>
    /\ violation_indices(arg.hypothesis, arg.obs_path).val = {}
    /\ ret = RMul(RPowNat(RMul(RSub(One, RMul(prob_viol_detection, prob_sanctioning)),
                               RSub(One, prob_random_punishment)),
                          Cardinality(Unpunished)),
                  RPowNat(prob_random_punishment, Cardinality(Punished)))

\* C7 amended: for (never, X) and a path without X the violation index set
\* is empty and the likelihood has the factor 1 - p_random for every
\* position that is not sanctioned (and p_random for every sanctioned one).
C7_FactorOfCompliantPath ==
  NeverOnPathWithout =>
    /\ violation_indices(arg.hypothesis, arg.obs_path).val = {}
    /\ raised = "none"
    /\ ret = RMul(RPowNat(RSub(One, prob_random_punishment), Cardinality(Unpunished)),
                  RPowNat(prob_random_punishment, Cardinality(Punished)))

\* (never, X) on a path without X with a sanctioned and an unsanctioned
\* position, where detection and sanctioning have an effect
C7_Witness ==
  /\ NeverOnPathWithout
  /\ Punished # {}
  /\ Unpunished # {}
  /\ RMul(prob_viol_detection, prob_sanctioning) # Zero
  /\ prob_random_punishment \notin {Zero, One}
  /\ ret # Zero

\* C8: for (context, never, node) the violation index set is the set of
\* positions of the path that hold node and lie after the first occurrence
\* of context among all but the last position.
C8_ConditionalNeverPositions ==
  (/\ op = "violation_indices"
   /\ Len(arg.hypothesis) = 3
   /\ arg.hypothesis[2] = "never") =>
    LET path == arg.path
        contexts == {i \in 0..(Len(path) - 2) : At(path, i) = arg.hypothesis[1]}
    IN  ret = {i \in 0..(Len(path) - 1) :
                 /\ At(path, i) = arg.hypothesis[3]
                 /\ \E first \in contexts :
                       /\ \A c \in contexts : first <= c
                       /\ first < i}

\* C9: on a non-empty path the plan-based breach predicate of a hypothesis
\* is true exactly when its violation index set is not empty.
C9_BreachIffViolation ==
  (op = "is_norm_breaching" /\ Len(arg.path) > 0) =>
    /\ raised = "none"
    /\ ret = (violation_indices(arg.hypothesis, arg.path).val # {})

\* a conditional never norm breached, and one not breached although the
\* node occurs
C9_Witness ==
  /\ op = "is_norm_breaching"
  /\ arg.hypothesis = <<"a", "never", "b">>
  /\ arg.path = <<"b", "a", "b">>
  /\ ret = TRUE

\* C10: a hypothesis without violation on the clean path of the trace has
\* the sanction likelihood of NoNorm,
\* (1-p_random)^(path_len - n_sanctioned) * p_random^n_sanctioned, so the
\* sanction evidence of the update leaves its mass unchanged.
C10_CompliantLikeNoNorm ==
  op = "UpdateOddsRatioVsNoNorm" =>
    \A h \in Norms :
      violation_indices(h, ret.obs_without_sanctions).val = {} =>
        /\ SanctionLikelihood(NoNorm).exc = "none"
        /\ SanctionLikelihood(h).val = SanctionLikelihood(NoNorm).val
        /\ ~BaselineDerivable => d[h] = d_before[h]

====
